---- MODULE Spec2Model ----
(***************************************************************************)
(* The GPU resource translation core of GLOVE: vulkanAPI::RenderPass       *)
(* (renderPass.cpp) and Shader (shader.cpp), each as a state machine over  *)
(* its member fields, together with the part of the Vulkan device and of   *)
(* the command buffer that the two classes drive.                          *)
(***************************************************************************)
EXTENDS Integers, Sequences, FiniteSets, TLC

\* ---------------------------------------------------------------- bounds
MaxHandles == 3      \* native objects of one kind the device hands out
MaxCmds    == 3      \* commands recorded into the command buffer
MaxCount   == 2      \* fragments of one SetShaderSource call
MaxFragLen == 2      \* characters of one fragment before its terminator

\* ------------------------------------------------------------- constants
VK_NULL_HANDLE == 0

VARIABLES
    \* vulkanAPI::RenderPass
    mVkRenderPass,
    mColorClearEnabled, mDepthClearEnabled, mStencilClearEnabled,
    mColorWriteEnabled, mDepthWriteEnabled, mStencilWriteEnabled,
    mStarted,
    \* Shader
    mVkShaderModule, mShaderCompiler, mSource, mSourceLength,
    mShaderType, mCompiled, mSpv,
    \* the build and the process
    NDEBUG,          \* TRUE: assert() is compiled out
    aborted,         \* the process was aborted (failed assert, fault)
    destructed,      \* the set of objects whose destructor has run
    \* the device and the command buffer, as the two classes see them
    rpCreated,       \* render passes created so far
    rpLive,          \* render-pass handles created and not destroyed
    rpDestroyCount,  \* handle -> times passed to vkDestroyRenderPass
    smCreated,       \* shader modules created so far
    smLive,          \* shader-module handles created and not destroyed
    smDestroyCount,  \* handle -> times passed to vkDestroyShaderModule
    cmdBuffer,       \* commands recorded by Begin/End
    \* history
    rpCall,          \* the last RenderPass call: arguments, native result, return
    openBegin,       \* a Begin was called and no End since
    shCall,          \* the last Shader call: arguments and return
    \* the caller
    todo             \* the SetShaderSource calls a caller is about to make

rpVars  == <<mVkRenderPass, mColorClearEnabled, mDepthClearEnabled,
             mStencilClearEnabled, mColorWriteEnabled, mDepthWriteEnabled,
             mStencilWriteEnabled, mStarted>>
shVars  == <<mVkShaderModule, mShaderCompiler, mSource, mSourceLength,
             mShaderType, mCompiled, mSpv>>
rpDev   == <<rpCreated, rpLive, rpDestroyCount, cmdBuffer>>
smDev   == <<smCreated, smLive, smDestroyCount>>
rpFlags == <<mColorClearEnabled, mDepthClearEnabled, mStencilClearEnabled,
             mColorWriteEnabled, mDepthWriteEnabled, mStencilWriteEnabled>>
rpAll   == <<rpVars, rpDev, rpCall, openBegin>>
shAll   == <<shVars, smDev, shCall>>
vars    == <<rpVars, shVars, NDEBUG, aborted, destructed, rpDev, smDev,
             rpCall, openBegin, shCall, todo>>

\* ------------------------------------------------------------ data types
Handles == 1..MaxHandles

nullptr == << >>     \* a null pointer to an array or to a buffer

VkResults == {"VK_SUCCESS", "VK_ERROR_OUT_OF_HOST_MEMORY",
              "VK_ERROR_OUT_OF_DEVICE_MEMORY", "VK_ERROR_DEVICE_LOST"}

ColorFormats        == {"VK_FORMAT_UNDEFINED", "VK_FORMAT_R8G8B8A8_UNORM"}
DepthStencilFormats == {"VK_FORMAT_UNDEFINED", "VK_FORMAT_D24_UNORM_S8_UINT"}

NoInfo == [attachmentCount |-> 0, attachments |-> << >>, subpassCount |-> 0,
           subpass |-> << >>, dependencyCount |-> 0]

\* returned: the call came back to its caller; ret: the boolean it returned.
NoRpCall == [op |-> "none", colorFormat |-> "none", depthstencilFormat |-> "none",
             err |-> "none", returned |-> FALSE, ret |-> FALSE, info |-> NoInfo]

RpCall(op) == [NoRpCall EXCEPT !.op = op, !.returned = TRUE]

NoShCall == [op |-> "none", count |-> 0, source |-> nullptr, length |-> nullptr,
             preSourceLength |-> 0, preCompiled |-> FALSE,
             err |-> "none", returned |-> FALSE, retBool |-> FALSE,
             retHandle |-> VK_NULL_HANDLE, codeSize |-> 0,
             text |-> nullptr, retLog |-> nullptr, overrun |-> FALSE,
             srcOp |-> "none"]

\* Saturating count of destroy calls on one handle.
Bump(count, h) == [count EXCEPT ![h] = IF @ >= 2 THEN 2 ELSE @ + 1]

\* ------------------------------------------------------ construction
RenderPass_ctor ==
    /\ mVkRenderPass = VK_NULL_HANDLE
    /\ mColorClearEnabled = FALSE
    /\ mDepthClearEnabled = FALSE
    /\ mStencilClearEnabled = FALSE
    /\ mColorWriteEnabled = TRUE
    /\ mDepthWriteEnabled = TRUE
    /\ mStencilWriteEnabled = FALSE
    /\ mStarted = FALSE

Shader_ctor ==
    /\ mVkShaderModule = VK_NULL_HANDLE
    /\ mShaderCompiler = "nullptr"
    /\ mSource = nullptr
    /\ mSourceLength = 0
    /\ mShaderType = "SHADER_TYPE_INVALID"
    /\ mCompiled = FALSE
    /\ mSpv = << >>

Constructed ==
    /\ RenderPass_ctor
    /\ Shader_ctor
    /\ NDEBUG \in BOOLEAN
    /\ aborted = FALSE
    /\ destructed = {}
    /\ rpCreated = 0
    /\ rpLive = {}
    /\ rpDestroyCount = [h \in Handles |-> 0]
    /\ smCreated = 0
    /\ smLive = {}
    /\ smDestroyCount = [h \in Handles |-> 0]
    /\ cmdBuffer = << >>
    /\ rpCall = NoRpCall
    /\ openBegin = FALSE
    /\ shCall = NoShCall

Init ==
    /\ Constructed
    /\ todo = << >>

RpAlive == ~aborted /\ "RenderPass" \notin destructed
ShAlive == ~aborted /\ "Shader" \notin destructed

\* ------------------------------------------------------------ RenderPass

\* The body of RenderPass::Release: the handle and the device after it.
ReleaseBody_KeepHandle ==
    IF mVkRenderPass # VK_NULL_HANDLE
    THEN [handle    |-> mVkRenderPass,
          live      |-> rpLive \ {mVkRenderPass},
          destroyed |-> Bump(rpDestroyCount, mVkRenderPass)]
    ELSE [handle |-> mVkRenderPass, live |-> rpLive, destroyed |-> rpDestroyCount]

ReleaseBody_NoDestroy ==
    [handle |-> VK_NULL_HANDLE, live |-> rpLive, destroyed |-> rpDestroyCount]

ReleaseBody ==
    IF mVkRenderPass # VK_NULL_HANDLE
    THEN [handle    |-> VK_NULL_HANDLE,
          live      |-> rpLive \ {mVkRenderPass},
          destroyed |-> Bump(rpDestroyCount, mVkRenderPass)]
    ELSE [handle |-> mVkRenderPass, live |-> rpLive, destroyed |-> rpDestroyCount]

\* RenderPass::Release
Release ==
    /\ RpAlive
    /\ mVkRenderPass' = ReleaseBody.handle
    /\ rpLive' = ReleaseBody.live
    /\ rpDestroyCount' = ReleaseBody.destroyed
    /\ rpCall' = RpCall("Release")
    /\ UNCHANGED <<rpFlags, mStarted, rpCreated, cmdBuffer, openBegin>>
    /\ UNCHANGED <<shAll, todo, NDEBUG, aborted, destructed>>

\* RenderPass::~RenderPass
RenderPass_dtor ==
    /\ RpAlive
    /\ mVkRenderPass' = ReleaseBody.handle
    /\ rpLive' = ReleaseBody.live
    /\ rpDestroyCount' = ReleaseBody.destroyed
    /\ destructed' = destructed \cup {"RenderPass"}
    /\ rpCall' = RpCall("~RenderPass")
    /\ UNCHANGED <<rpFlags, mStarted, rpCreated, cmdBuffer, openBegin>>
    /\ UNCHANGED <<shAll, todo, NDEBUG, aborted>>

LoadOp(clearEnabled) ==
    IF clearEnabled THEN "VK_ATTACHMENT_LOAD_OP_CLEAR"
                    ELSE "VK_ATTACHMENT_LOAD_OP_DONT_CARE"

StoreOp(writeEnabled) ==
    IF writeEnabled THEN "VK_ATTACHMENT_STORE_OP_STORE"
                    ELSE "VK_ATTACHMENT_STORE_OP_DONT_CARE"

attachmentColor(colorFormat) ==
    [flags          |-> 0,
     format         |-> colorFormat,
     samples        |-> "VK_SAMPLE_COUNT_1_BIT",
     loadOp         |-> LoadOp(mColorClearEnabled),
     storeOp        |-> StoreOp(mColorWriteEnabled),
     stencilLoadOp  |-> "VK_ATTACHMENT_LOAD_OP_DONT_CARE",
     stencilStoreOp |-> "VK_ATTACHMENT_STORE_OP_DONT_CARE",
     initialLayout  |-> "VK_IMAGE_LAYOUT_UNDEFINED",
     finalLayout    |-> "VK_IMAGE_LAYOUT_COLOR_ATTACHMENT_OPTIMAL"]

attachmentDepthStencil_StencilFromDepth(depthstencilFormat) ==
    [flags          |-> 0,
     format         |-> depthstencilFormat,
     samples        |-> "VK_SAMPLE_COUNT_1_BIT",
     loadOp         |-> LoadOp(mDepthClearEnabled),
     storeOp        |-> StoreOp(mDepthWriteEnabled),
     stencilLoadOp  |-> LoadOp(mDepthClearEnabled),
     stencilStoreOp |-> StoreOp(mDepthWriteEnabled),
     initialLayout  |-> "VK_IMAGE_LAYOUT_UNDEFINED",
     finalLayout    |-> "VK_IMAGE_LAYOUT_DEPTH_STENCIL_ATTACHMENT_OPTIMAL"]

attachmentDepthStencil(depthstencilFormat) ==
    [flags          |-> 0,
     format         |-> depthstencilFormat,
     samples        |-> "VK_SAMPLE_COUNT_1_BIT",
     loadOp         |-> LoadOp(mDepthClearEnabled),
     storeOp        |-> StoreOp(mDepthWriteEnabled),
     stencilLoadOp  |-> LoadOp(mStencilClearEnabled),
     stencilStoreOp |-> StoreOp(mStencilWriteEnabled),
     initialLayout  |-> "VK_IMAGE_LAYOUT_UNDEFINED",
     finalLayout    |-> "VK_IMAGE_LAYOUT_DEPTH_STENCIL_ATTACHMENT_OPTIMAL"]

\* attachments.size() - 1 right after the push_back: indices count from 0.
LastIndex_Fixed(attachments) == 1

LastIndex(attachments) == Len(attachments) - 1

\* Lines 71-136 of RenderPass::Create: the VkRenderPassCreateInfo it builds.
\* A reference the code leaves uninitialised is never read there: the
\* subpass holds a null pointer instead.
RenderPassCreateInfo(colorFormat, depthstencilFormat) ==
    LET hasColor == colorFormat # "VK_FORMAT_UNDEFINED"
        hasDepth == depthstencilFormat # "VK_FORMAT_UNDEFINED"
        a1 == IF hasColor THEN <<attachmentColor(colorFormat)>> ELSE << >>
        color == [attachment |-> LastIndex(a1),
                  layout     |-> "VK_IMAGE_LAYOUT_COLOR_ATTACHMENT_OPTIMAL"]
        a2 == IF hasDepth
              THEN Append(a1, attachmentDepthStencil(depthstencilFormat))
              ELSE a1
        depthstencil == [attachment |-> LastIndex(a2),
                         layout     |-> "VK_IMAGE_LAYOUT_DEPTH_STENCIL_ATTACHMENT_OPTIMAL"]
        subpass == [pipelineBindPoint       |-> "VK_PIPELINE_BIND_POINT_GRAPHICS",
                    flags                   |-> 0,
                    colorAttachmentCount    |-> IF hasColor THEN 1 ELSE 0,
                    pColorAttachments       |-> IF hasColor THEN <<color>> ELSE nullptr,
                    pDepthStencilAttachment |-> IF hasDepth THEN <<depthstencil>> ELSE nullptr,
                    pResolveAttachments     |-> nullptr,
                    inputAttachmentCount    |-> 0,
                    pInputAttachments       |-> nullptr,
                    preserveAttachmentCount |-> 0,
                    pPreserveAttachments    |-> nullptr]
    IN  [attachmentCount |-> Len(a2),
         attachments     |-> a2,
         subpassCount    |-> 1,
         subpass         |-> subpass,
         dependencyCount |-> 0]

\* assert(!err): aborts unless the build defines NDEBUG.
AssertNoErr(err) == ~NDEBUG /\ err # "VK_SUCCESS"

CreateResult(err) ==
    err # "VK_ERROR_OUT_OF_HOST_MEMORY" /\ err # "VK_ERROR_OUT_OF_DEVICE_MEMORY"

\* RenderPass::Create; err is what vkCreateRenderPass answers.  A failed
\* native creation leaves the handle as Release left it.
Create(colorFormat, depthstencilFormat, err) ==
    /\ RpAlive
    /\ err = "VK_SUCCESS" => rpCreated < MaxHandles
    /\ LET info == RenderPassCreateInfo(colorFormat, depthstencilFormat)
           new  == rpCreated + 1
       IN  /\ rpDestroyCount' = ReleaseBody.destroyed
           /\ IF err = "VK_SUCCESS"
              THEN /\ mVkRenderPass' = new
                   /\ rpCreated' = new
                   /\ rpLive' = ReleaseBody.live \cup {new}
              ELSE /\ mVkRenderPass' = ReleaseBody.handle
                   /\ rpCreated' = rpCreated
                   /\ rpLive' = ReleaseBody.live
           /\ aborted' = AssertNoErr(err)
           /\ rpCall' = [op |-> "Create", colorFormat |-> colorFormat,
                         depthstencilFormat |-> depthstencilFormat,
                         err |-> err,
                         returned |-> ~AssertNoErr(err),
                         ret |-> ~AssertNoErr(err) /\ CreateResult(err),
                         info |-> info]
    /\ UNCHANGED <<rpFlags, mStarted, cmdBuffer, openBegin>>
    /\ UNCHANGED <<shAll, todo, NDEBUG, destructed>>

\* RenderPass::Begin.  The code does not look at mVkRenderPass: with a null
\* handle the native layer is handed an invalid render pass, and either
\* records the command all the same or faults.
Begin ==
    /\ RpAlive
    /\ Len(cmdBuffer) < MaxCmds
    /\ cmdBuffer' = Append(cmdBuffer,
                           [cmd |-> "vkCmdBeginRenderPass",
                            renderPass |-> mVkRenderPass,
                            clearValueCount |-> 2,
                            contents |-> "VK_SUBPASS_CONTENTS_SECONDARY_COMMAND_BUFFERS"])
    /\ mStarted' = TRUE
    /\ openBegin' = TRUE
    /\ rpCall' = RpCall("Begin")
    /\ UNCHANGED <<mVkRenderPass, rpFlags, rpCreated, rpLive, rpDestroyCount>>
    /\ UNCHANGED <<shAll, todo, NDEBUG, aborted, destructed>>

BeginFault ==
    /\ RpAlive
    /\ mVkRenderPass = VK_NULL_HANDLE
    /\ aborted' = TRUE
    /\ openBegin' = TRUE
    /\ rpCall' = [NoRpCall EXCEPT !.op = "Begin"]
    /\ UNCHANGED <<rpVars, rpDev>>
    /\ UNCHANGED <<shAll, todo, NDEBUG, destructed>>

\* The guard of RenderPass::End.
EndGuard_Always == TRUE

EndGuard == mStarted

End_KeepStarted ==
    /\ RpAlive
    /\ IF EndGuard
       THEN /\ Len(cmdBuffer) < MaxCmds
            /\ cmdBuffer' = Append(cmdBuffer, [cmd |-> "vkCmdEndRenderPass"])
            /\ UNCHANGED mStarted
       ELSE UNCHANGED <<mStarted, cmdBuffer>>
    /\ openBegin' = FALSE
    /\ rpCall' = RpCall("End")
    /\ UNCHANGED <<mVkRenderPass, rpFlags, rpCreated, rpLive, rpDestroyCount>>
    /\ UNCHANGED <<shAll, todo, NDEBUG, aborted, destructed>>

End ==
    /\ RpAlive
    /\ IF EndGuard
       THEN /\ Len(cmdBuffer) < MaxCmds
            /\ mStarted' = FALSE
            /\ cmdBuffer' = Append(cmdBuffer, [cmd |-> "vkCmdEndRenderPass"])
       ELSE UNCHANGED <<mStarted, cmdBuffer>>
    /\ openBegin' = FALSE
    /\ rpCall' = RpCall("End")
    /\ UNCHANGED <<mVkRenderPass, rpFlags, rpCreated, rpLive, rpDestroyCount>>
    /\ UNCHANGED <<shAll, todo, NDEBUG, aborted, destructed>>

\* The flag setters of renderPass.h.
SetColorClearEnabled(enable) ==
    /\ RpAlive
    /\ mColorClearEnabled' = enable
    /\ rpCall' = RpCall("SetColorClearEnabled")
    /\ UNCHANGED <<mVkRenderPass, mDepthClearEnabled, mStencilClearEnabled,
                   mColorWriteEnabled, mDepthWriteEnabled, mStencilWriteEnabled,
                   mStarted, rpDev, openBegin>>
    /\ UNCHANGED <<shAll, todo, NDEBUG, aborted, destructed>>

SetDepthClearEnabled(enable) ==
    /\ RpAlive
    /\ mDepthClearEnabled' = enable
    /\ rpCall' = RpCall("SetDepthClearEnabled")
    /\ UNCHANGED <<mVkRenderPass, mColorClearEnabled, mStencilClearEnabled,
                   mColorWriteEnabled, mDepthWriteEnabled, mStencilWriteEnabled,
                   mStarted, rpDev, openBegin>>
    /\ UNCHANGED <<shAll, todo, NDEBUG, aborted, destructed>>

SetStencilClearEnabled(enable) ==
    /\ RpAlive
    /\ mStencilClearEnabled' = enable
    /\ rpCall' = RpCall("SetStencilClearEnabled")
    /\ UNCHANGED <<mVkRenderPass, mColorClearEnabled, mDepthClearEnabled,
                   mColorWriteEnabled, mDepthWriteEnabled, mStencilWriteEnabled,
                   mStarted, rpDev, openBegin>>
    /\ UNCHANGED <<shAll, todo, NDEBUG, aborted, destructed>>

SetColorWriteEnabled(enable) ==
    /\ RpAlive
    /\ mColorWriteEnabled' = enable
    /\ rpCall' = RpCall("SetColorWriteEnabled")
    /\ UNCHANGED <<mVkRenderPass, mColorClearEnabled, mDepthClearEnabled,
                   mStencilClearEnabled, mDepthWriteEnabled, mStencilWriteEnabled,
                   mStarted, rpDev, openBegin>>
    /\ UNCHANGED <<shAll, todo, NDEBUG, aborted, destructed>>

SetDepthWriteEnabled(enable) ==
    /\ RpAlive
    /\ mDepthWriteEnabled' = enable
    /\ rpCall' = RpCall("SetDepthWriteEnabled")
    /\ UNCHANGED <<mVkRenderPass, mColorClearEnabled, mDepthClearEnabled,
                   mStencilClearEnabled, mColorWriteEnabled, mStencilWriteEnabled,
                   mStarted, rpDev, openBegin>>
    /\ UNCHANGED <<shAll, todo, NDEBUG, aborted, destructed>>

SetStencilWriteEnabled(enable) ==
    /\ RpAlive
    /\ mStencilWriteEnabled' = enable
    /\ rpCall' = RpCall("SetStencilWriteEnabled")
    /\ UNCHANGED <<mVkRenderPass, mColorClearEnabled, mDepthClearEnabled,
                   mStencilClearEnabled, mColorWriteEnabled, mDepthWriteEnabled,
                   mStarted, rpDev, openBegin>>
    /\ UNCHANGED <<shAll, todo, NDEBUG, aborted, destructed>>

\* ---------------------------------------------------------------- Shader

NUL == 0

\* Character k of the fragment at position i: every character of a call is
\* a different one, so that a text shows where each of its bytes came from.
Char(i, k) == 10 * i + k

\* The fragment of n characters at position i: a null-terminated array.
CString(i, n) == [k \in 1..(n + 1) |-> IF k <= n THEN Char(i, k) ELSE NUL]

\* The sources arrays of count fragments.
SourceArrays(count) ==
    {[i \in 1..count |-> CString(i, n[i])] : n \in [1..count -> 0..MaxFragLen]}

\* The lengths arrays legal for the fragments of source: -1 asks for the
\* terminator to be looked up, and no length reaches past the array.
LengthArrays(source, count) ==
    {l \in [1..count -> (0 - 1)..(MaxFragLen + 1)] :
        \A i \in 1..count : l[i] <= Len(source[i])}

\* The arguments of SetShaderSource.
SourceInputs ==
    {[count |-> 0, source |-> s, length |-> nullptr] : s \in {nullptr, <<<<NUL>>>>}}
    \cup {[count |-> n, source |-> nullptr, length |-> nullptr] : n \in 1..MaxCount}
    \cup UNION {UNION {{[count |-> n, source |-> s, length |-> l] :
                           l \in {nullptr} \cup LengthArrays(s, n)} :
                       s \in SourceArrays(n)} :
                n \in 1..MaxCount}

\* A few of them, for the specification of the whole life cycle.
LifeInputs ==
    {[count |-> 0, source |-> nullptr, length |-> nullptr],
     [count |-> 1, source |-> <<CString(1, 1)>>, length |-> nullptr],
     [count |-> 1, source |-> <<CString(1, 1)>>, length |-> <<0>>]}

\* The binary IR a compiler hands over.
SpvWords == {<<1>>, <<2>>}

ShaderTypes == {"SHADER_TYPE_VERTEX", "SHADER_TYPE_FRAGMENT", "SHADER_TYPE_INVALID"}

\* srcOp, the last call among SetShaderSource and CompileShader, is kept
\* across the other calls.
ShCall(op) == [NoShCall EXCEPT !.op = op, !.returned = TRUE, !.srcOp = shCall.srcOp]

strlen(s) == CHOOSE n \in 0..(Len(s) - 1) : s[n + 1] = NUL /\ \A m \in 1..n : s[m] # NUL

\* memcpy(&dst[offset], src, n); offsets count from 0, sequences from 1.
memcpy(dst, offset, src, n) ==
    [k \in DOMAIN dst |-> IF offset < k /\ k <= offset + n THEN src[k - offset] ELSE dst[k]]

\* new char[n]: n bytes of no defined value (-1).
new_char(n) == [k \in 1..n |-> 0 - 1]

\* Shader::FreeSources: the source fields after it.
FreeSourcesBody_KeepLength ==
    IF mSource # nullptr
    THEN [source |-> nullptr, length |-> mSourceLength]
    ELSE [source |-> mSource, length |-> mSourceLength]

FreeSourcesBody ==
    IF mSource # nullptr
    THEN [source |-> nullptr, length |-> 0]
    ELSE [source |-> mSource, length |-> mSourceLength]

\* Lines 85-95: the length of fragment i (the code counts i from 0).
FragmentLength_ZeroIsStrlen(source, length, i) ==
    IF length = nullptr
    THEN strlen(source[i])
    ELSE IF length[i] <= 0 THEN strlen(source[i]) ELSE length[i]

FragmentLength(source, length, i) ==
    IF length = nullptr
    THEN strlen(source[i])
    ELSE IF length[i] < 0 THEN strlen(source[i]) ELSE length[i]

\* Lines 83-98: sourceLengths[], and mSourceLength summed up from 0.
SourceLengths(count, source, length) ==
    [i \in 1..count |-> FragmentLength(source, length, i)]

RECURSIVE CountTotal(_, _, _, _)
CountTotal(count, sourceLengths, i, total) ==
    IF i > count THEN total
    ELSE CountTotal(count, sourceLengths, i + 1, total + sourceLengths[i])

\* Lines 110-116: the copy loop; yields the buffer and currentLength.
RECURSIVE Concatenate(_, _, _, _, _, _)
Concatenate(count, source, sourceLengths, i, buf, currentLength) ==
    IF i > count THEN [buf |-> buf, currentLength |-> currentLength]
    ELSE IF sourceLengths[i] # 0
         THEN Concatenate(count, source, sourceLengths, i + 1,
                          memcpy(buf, currentLength, source[i], sourceLengths[i]),
                          currentLength + sourceLengths[i])
         ELSE Concatenate(count, source, sourceLengths, i + 1, buf, currentLength)

\* Line 73: what SetShaderSource stores into mCompiled.
SetShaderSource_mCompiled_Keep == mCompiled

SetShaderSource_mCompiled == FALSE

\* The body of Shader::SetShaderSource.  The two diagnostics switches at its
\* end (saving and dumping the source) change no field of the Shader.
SetShaderSourceBody(count, source, length) ==
    /\ ShAlive
    /\ mCompiled' = SetShaderSource_mCompiled
    /\ LET sourceLengths == SourceLengths(count, source, length)
           total  == CountTotal(count, sourceLengths, 1, 0)
           copied == Concatenate(count, source, sourceLengths, 1,
                                 new_char(total + 1), 0)
       IN  IF source = nullptr \/ count = 0
           THEN /\ mSource' = FreeSourcesBody.source
                /\ mSourceLength' = FreeSourcesBody.length
                /\ UNCHANGED aborted
           ELSE IF total = 0
           THEN /\ mSource' = FreeSourcesBody.source
                /\ mSourceLength' = total
                /\ UNCHANGED aborted
           ELSE /\ mSourceLength' = total
                /\ mSource' = [copied.buf EXCEPT ![copied.currentLength + 1] = NUL]
                /\ aborted' = (~NDEBUG /\ copied.currentLength # total)
    /\ shCall' = [NoShCall EXCEPT !.op = "SetShaderSource",
                                  !.count = count, !.source = source,
                                  !.length = length,
                                  !.preSourceLength = mSourceLength,
                                  !.preCompiled = mCompiled,
                                  !.returned = TRUE,
                                  !.srcOp = "SetShaderSource"]
    /\ UNCHANGED <<mVkShaderModule, mShaderCompiler, mShaderType, mSpv, smDev>>
    /\ UNCHANGED <<rpAll, NDEBUG, destructed>>

\* Shader::SetShaderSource, called with the given arguments.
SetShaderSource(count, source, length) ==
    /\ SetShaderSourceBody(count, source, length)
    /\ UNCHANGED todo

\* Shader::SetShaderSource, called with the next arguments of the caller.
SetShaderSourceNext ==
    /\ todo # << >>
    /\ SetShaderSourceBody(Head(todo).count, Head(todo).source, Head(todo).length)
    /\ todo' = Tail(todo)

\* Shader::GetShaderSourceLength
GetShaderSourceLength == IF mSourceLength > 0 THEN mSourceLength + 1 ELSE 0

\* Shader::GetShaderSource: null, or a copy of GetShaderSourceLength() bytes.
GetShaderSource ==
    IF mSource = nullptr
    THEN nullptr
    ELSE memcpy(new_char(GetShaderSourceLength), 0, mSource, GetShaderSourceLength)

\* The diagnostic texts a compiler holds: null-terminated arrays.
InfoLogs == {CString(1, n) : n \in 0..MaxFragLen}

\* Line 164: the number of bytes copied out of the compiler's text.
GetInfoLog_CopyLength_NoTerminator(len) == len - 1

GetInfoLog_CopyLength(len) == len

\* Shader::GetInfoLog; text is what GetShaderInfoLog answers.  overrun: the
\* store of line 168 was made, one byte past the len bytes allocated.
GetInfoLog(text) ==
    /\ ShAlive
    /\ IF mShaderCompiler = "nullptr" THEN text = nullptr ELSE text # nullptr
    /\ LET len == strlen(text) + 1
           log == memcpy(new_char(len), 0, text, GetInfoLog_CopyLength(len))
       IN  shCall' = IF mShaderCompiler # "nullptr"
                     THEN [ShCall("GetInfoLog") EXCEPT !.text = text,
                                                       !.retLog = log,
                                                       !.overrun = (log[len] # NUL)]
                     ELSE ShCall("GetInfoLog")
    /\ UNCHANGED <<shVars, smDev>>
    /\ UNCHANGED <<rpAll, todo, NDEBUG, aborted, destructed>>

\* GetInfoLog when the compiler holds no text (the null that
\* GetInfoLogLength tests for at line 52): strlen is handed a null pointer.
GetInfoLogFault ==
    /\ ShAlive
    /\ mShaderCompiler # "nullptr"
    /\ aborted' = TRUE
    /\ shCall' = [NoShCall EXCEPT !.op = "GetInfoLog", !.srcOp = shCall.srcOp]
    /\ UNCHANGED <<shVars, smDev>>
    /\ UNCHANGED <<rpAll, todo, NDEBUG, destructed>>

CompileShader_StoresSpv(verdict) ==
    /\ ShAlive
    /\ mShaderCompiler # "nullptr"
    /\ mCompiled' = verdict
    /\ mSpv' = IF verdict THEN <<1>> ELSE mSpv
    /\ shCall' = [NoShCall EXCEPT !.op = "CompileShader",
                                  !.preCompiled = mCompiled,
                                  !.returned = TRUE,
                                  !.retBool = mCompiled',
                                  !.srcOp = IF verdict THEN "CompileShader:true"
                                                       ELSE "CompileShader:false"]
    /\ UNCHANGED <<mVkShaderModule, mShaderCompiler, mSource, mSourceLength,
                   mShaderType, smDev>>
    /\ UNCHANGED <<rpAll, todo, NDEBUG, aborted, destructed>>

\* Shader::CompileShader; verdict is what the compiler answers.
CompileShader(verdict) ==
    /\ ShAlive
    /\ mShaderCompiler # "nullptr"
    /\ mCompiled' = verdict
    /\ shCall' = [NoShCall EXCEPT !.op = "CompileShader",
                                  !.preCompiled = mCompiled,
                                  !.returned = TRUE,
                                  !.retBool = mCompiled',
                                  !.srcOp = IF verdict THEN "CompileShader:true"
                                                       ELSE "CompileShader:false"]
    /\ UNCHANGED <<mVkShaderModule, mShaderCompiler, mSource, mSourceLength,
                   mShaderType, mSpv, smDev>>
    /\ UNCHANGED <<rpAll, todo, NDEBUG, aborted, destructed>>

\* CompileShader with no compiler attached calls through a null pointer.
CompileShaderFault ==
    /\ ShAlive
    /\ mShaderCompiler = "nullptr"
    /\ aborted' = TRUE
    /\ shCall' = [NoShCall EXCEPT !.op = "CompileShader",
                                  !.preCompiled = mCompiled,
                                  !.srcOp = shCall.srcOp]
    /\ UNCHANGED <<shVars, smDev>>
    /\ UNCHANGED <<rpAll, todo, NDEBUG, destructed>>

\* The body of Shader::DestroyVkShader: the handle and the device after it.
DestroyVkShaderBody_KeepHandle ==
    IF mVkShaderModule # VK_NULL_HANDLE
    THEN [handle    |-> mVkShaderModule,
          live      |-> smLive \ {mVkShaderModule},
          destroyed |-> Bump(smDestroyCount, mVkShaderModule)]
    ELSE [handle |-> mVkShaderModule, live |-> smLive, destroyed |-> smDestroyCount]

DestroyVkShaderBody ==
    IF mVkShaderModule # VK_NULL_HANDLE
    THEN [handle    |-> VK_NULL_HANDLE,
          live      |-> smLive \ {mVkShaderModule},
          destroyed |-> Bump(smDestroyCount, mVkShaderModule)]
    ELSE [handle |-> mVkShaderModule, live |-> smLive, destroyed |-> smDestroyCount]

DestroyVkShader ==
    /\ ShAlive
    /\ mVkShaderModule' = DestroyVkShaderBody.handle
    /\ smLive' = DestroyVkShaderBody.live
    /\ smDestroyCount' = DestroyVkShaderBody.destroyed
    /\ shCall' = ShCall("DestroyVkShader")
    /\ UNCHANGED <<mShaderCompiler, mSource, mSourceLength, mShaderType,
                   mCompiled, mSpv, smCreated>>
    /\ UNCHANGED <<rpAll, todo, NDEBUG, aborted, destructed>>

\* The assert of line 201: aborts unless the build defines NDEBUG.
AssertShaderType ==
    ~NDEBUG /\ mShaderType # "SHADER_TYPE_VERTEX" /\ mShaderType # "SHADER_TYPE_FRAGMENT"

\* Shader::CreateVkShaderModule; err is what vkCreateShaderModule answers
\* when the call is reached.  A failed native creation leaves the handle as
\* DestroyVkShader left it.
CreateVkShaderModule(err) ==
    /\ ShAlive
    /\ err = "VK_SUCCESS" => smCreated < MaxHandles
    /\ LET new == smCreated + 1
           call == [NoShCall EXCEPT !.op = "CreateVkShaderModule",
                                    !.srcOp = shCall.srcOp]
       IN  IF AssertShaderType
           THEN /\ aborted' = TRUE
                /\ shCall' = call
                /\ UNCHANGED <<mVkShaderModule, smDev>>
           ELSE /\ UNCHANGED aborted
                /\ smDestroyCount' = DestroyVkShaderBody.destroyed
                /\ IF Len(mSpv) = 0
                   THEN /\ mVkShaderModule' = DestroyVkShaderBody.handle
                        /\ smLive' = DestroyVkShaderBody.live
                        /\ UNCHANGED smCreated
                        /\ shCall' = [call EXCEPT !.returned = TRUE,
                                                  !.retHandle = VK_NULL_HANDLE]
                   ELSE IF err # "VK_SUCCESS"
                   THEN /\ mVkShaderModule' = DestroyVkShaderBody.handle
                        /\ smLive' = DestroyVkShaderBody.live
                        /\ UNCHANGED smCreated
                        /\ shCall' = [call EXCEPT !.returned = TRUE,
                                                  !.err = err,
                                                  !.codeSize = Len(mSpv) * 4,
                                                  !.retHandle = VK_NULL_HANDLE]
                   ELSE /\ mVkShaderModule' = new
                        /\ smLive' = DestroyVkShaderBody.live \cup {new}
                        /\ smCreated' = new
                        /\ shCall' = [call EXCEPT !.returned = TRUE,
                                                  !.err = err,
                                                  !.codeSize = Len(mSpv) * 4,
                                                  !.retHandle = mVkShaderModule']
    /\ UNCHANGED <<mShaderCompiler, mSource, mSourceLength, mShaderType,
                   mCompiled, mSpv>>
    /\ UNCHANGED <<rpAll, todo, NDEBUG, destructed>>

\* Shader::~Shader
Shader_dtor ==
    /\ ShAlive
    /\ mSource' = FreeSourcesBody.source
    /\ mSourceLength' = FreeSourcesBody.length
    /\ mVkShaderModule' = DestroyVkShaderBody.handle
    /\ smLive' = DestroyVkShaderBody.live
    /\ smDestroyCount' = DestroyVkShaderBody.destroyed
    /\ destructed' = destructed \cup {"Shader"}
    /\ shCall' = ShCall("~Shader")
    /\ UNCHANGED <<mShaderCompiler, mShaderType, mCompiled, mSpv, smCreated>>
    /\ UNCHANGED <<rpAll, todo, NDEBUG, aborted>>

\* The setters of shader.h: the owner of a Shader gives it its stage and
\* its compiler once, and stores the binary IR the compiler produced.
SetShaderType(type) ==
    /\ ShAlive
    /\ mShaderType = "SHADER_TYPE_INVALID"
    /\ mShaderType' = type
    /\ shCall' = ShCall("SetShaderType")
    /\ UNCHANGED <<mVkShaderModule, mShaderCompiler, mSource, mSourceLength,
                   mCompiled, mSpv, smDev>>
    /\ UNCHANGED <<rpAll, todo, NDEBUG, aborted, destructed>>

SetShaderCompiler ==
    /\ ShAlive
    /\ mShaderCompiler = "nullptr"
    /\ mShaderCompiler' = "ShaderCompiler"
    /\ shCall' = ShCall("SetShaderCompiler")
    /\ UNCHANGED <<mVkShaderModule, mSource, mSourceLength, mShaderType,
                   mCompiled, mSpv, smDev>>
    /\ UNCHANGED <<rpAll, todo, NDEBUG, aborted, destructed>>

SetSPV(spv) ==
    /\ ShAlive
    /\ mSpv' = spv
    /\ shCall' = ShCall("SetSPV")
    /\ UNCHANGED <<mVkShaderModule, mShaderCompiler, mSource, mSourceLength,
                   mShaderType, mCompiled, smDev>>
    /\ UNCHANGED <<rpAll, todo, NDEBUG, aborted, destructed>>

\* -------------------------------------------------------- specifications

\* The life cycle of one RenderPass.
NextRenderPass ==
    \/ \E c \in ColorFormats, d \in DepthStencilFormats, err \in VkResults :
          Create(c, d, err)
    \/ Begin
    \/ BeginFault
    \/ End
    \/ Release
    \/ RenderPass_dtor

SpecRenderPass == Init /\ [][NextRenderPass]_vars

\* The descriptors Create builds, over every setting of the six flags.
NextCreate ==
    \/ \E b \in BOOLEAN : SetColorClearEnabled(b)
    \/ \E b \in BOOLEAN : SetDepthClearEnabled(b)
    \/ \E b \in BOOLEAN : SetStencilClearEnabled(b)
    \/ \E b \in BOOLEAN : SetColorWriteEnabled(b)
    \/ \E b \in BOOLEAN : SetDepthWriteEnabled(b)
    \/ \E b \in BOOLEAN : SetStencilWriteEnabled(b)
    \/ \E c \in ColorFormats, d \in DepthStencilFormats, err \in VkResults :
          Create(c, d, err)

SpecCreate == Init /\ [][NextCreate]_vars

\* The life cycle of one Shader.
NextShader ==
    \/ \E in \in LifeInputs : SetShaderSource(in.count, in.source, in.length)
    \/ \E verdict \in BOOLEAN : CompileShader(verdict)
    \/ CompileShaderFault
    \/ \E err \in VkResults : CreateVkShaderModule(err)
    \/ DestroyVkShader
    \/ Shader_dtor
    \/ \E type \in ShaderTypes \ {"SHADER_TYPE_INVALID"} : SetShaderType(type)
    \/ SetShaderCompiler
    \/ \E spv \in SpvWords : SetSPV(spv)
    \/ \E text \in InfoLogs \cup {nullptr} : GetInfoLog(text)
    \/ GetInfoLogFault

SpecShader == Init /\ [][NextShader]_vars

\* SetShaderSource as a function of its arguments: a caller makes one call
\* with any fragment list within the bounds, on a fresh Shader or on one
\* that holds the source of an earlier call.
InitSource ==
    /\ Constructed
    /\ todo \in {<<in>> : in \in SourceInputs}
                \cup {<<prior, in>> : prior \in LifeInputs, in \in SourceInputs}

NextSource == SetShaderSourceNext

SpecSource == InitSource /\ [][NextSource]_vars

\* ---------------------------------------------------------------- claims

OutOfMemory == {"VK_ERROR_OUT_OF_HOST_MEMORY", "VK_ERROR_OUT_OF_DEVICE_MEMORY"}

\* C1: in every state reachable by Create, Begin, End and Release calls,
\* started = true implies that nativeHandle is non-null.
C1_StartedOnlyWithHandle ==
    mStarted => mVkRenderPass # VK_NULL_HANDLE

\* C2: after every SetShaderSource call binaryIR is empty and nativeModule
\* is null, whatever the state before the call.
C2_SetShaderSourceDiscardsIR ==
    shCall.op = "SetShaderSource" =>
        /\ mSpv = << >>
        /\ mVkShaderModule = VK_NULL_HANDLE

\* The text of fragment i of a call, as the interface defines it: the first
\* lengths[i] bytes when a length >= 0 is given, else the bytes before the
\* first terminator.
FragmentText(call, i) ==
    LET s == call.source[i]
        firstNul == CHOOSE k \in 1..Len(s) :
                        s[k] = NUL /\ \A m \in 1..(k - 1) : s[m] # NUL
    IN  IF call.length # nullptr /\ call.length[i] >= 0
        THEN SubSeq(s, 1, call.length[i])
        ELSE SubSeq(s, 1, firstNul - 1)

RECURSIVE Concatenation(_, _)
Concatenation(call, i) ==
    IF i > call.count THEN << >>
    ELSE FragmentText(call, i) \o Concatenation(call, i + 1)

HasFragments(call) == call.count >= 1 /\ call.source # nullptr

\* C3: after SetShaderSource with count >= 1 and a total length > 0,
\* GetShaderSource is the concatenation of the fragments in input order
\* followed by one terminator, and GetShaderSourceLength is its length + 1.
C3_SourceIsConcatenation ==
    (/\ shCall.op = "SetShaderSource"
     /\ HasFragments(shCall)
     /\ Len(Concatenation(shCall, 1)) > 0)
    => /\ GetShaderSource = Concatenation(shCall, 1) \o <<NUL>>
       /\ GetShaderSourceLength = Len(Concatenation(shCall, 1)) + 1

\* A call with a negative and a positive length, made on a Shader that had a
\* source, has stored a two-fragment text.
C3_Witness ==
    /\ shCall.op = "SetShaderSource"
    /\ shCall.count = 2
    /\ shCall.length # nullptr
    /\ shCall.length[1] < 0
    /\ shCall.length[2] > 0
    /\ shCall.preSourceLength > 0
    /\ GetShaderSource = <<Char(1, 1), Char(2, 1), NUL>>
    /\ GetShaderSourceLength = 3

\* C4: SetShaderSource with count = 0, with no sources array, or with
\* fragments whose lengths are all zero leaves the shader sourceless, also
\* when a source was set before: GetShaderSourceLength is 0 and
\* GetShaderSource is null.
C4_EmptySourceIsSourceless ==
    (/\ shCall.op = "SetShaderSource"
     /\ \/ ~HasFragments(shCall)
        \/ Len(Concatenation(shCall, 1)) = 0)
    => /\ GetShaderSourceLength = 0
       /\ GetShaderSource = nullptr

\* Fragments of explicit length zero were passed to a Shader that had a source.
C4_Witness ==
    /\ shCall.op = "SetShaderSource"
    /\ shCall.preSourceLength > 0
    /\ HasFragments(shCall)
    /\ shCall.length # nullptr
    /\ strlen(shCall.source[1]) > 0
    /\ Len(Concatenation(shCall, 1)) = 0
    /\ mSource = nullptr

\* C5: compiled is true only if the last call among SetShaderSource and
\* CompileShader was a CompileShader the compiler reported success on;
\* every SetShaderSource leaves compiled false; CompileShader returns the
\* value it stores in compiled.
C5_CompiledOnlyAfterSuccess ==
    /\ mCompiled => shCall.srcOp = "CompileShader:true"
    /\ shCall.op = "SetShaderSource" => ~mCompiled
    /\ (shCall.op = "CompileShader" /\ shCall.returned) => shCall.retBool = mCompiled

\* SetShaderSource was called on a Shader whose compiled flag was true.
C5_Witness ==
    /\ shCall.op = "SetShaderSource"
    /\ shCall.preCompiled
    /\ ~mCompiled

\* The attachment at index n (counted from 0) of the last Create.
AttachmentAt(n) == rpCall.info.attachments[n + 1]

IsColorAttachment(a) ==
    /\ a.format = rpCall.colorFormat
    /\ a.finalLayout = "VK_IMAGE_LAYOUT_COLOR_ATTACHMENT_OPTIMAL"

IsDepthStencilAttachment(a) ==
    /\ a.format = rpCall.depthstencilFormat
    /\ a.finalLayout = "VK_IMAGE_LAYOUT_DEPTH_STENCIL_ATTACHMENT_OPTIMAL"

ColorDefined == rpCall.colorFormat # "VK_FORMAT_UNDEFINED"
DepthStencilDefined == rpCall.depthstencilFormat # "VK_FORMAT_UNDEFINED"

\* The index the subpass references through a pointer, or -1 for null.
RefIndex(pointer) == IF pointer = nullptr THEN 0 - 1 ELSE pointer[1].attachment

\* C6: Create builds the attachment list by position: color alone at index
\* 0, depth/stencil alone at index 0, both as color 0 and depth/stencil 1,
\* neither as no attachment; the subpass references the color attachment iff
\* colorFormat is defined and the depth/stencil one iff depthStencilFormat is.
C6_AttachmentsByPosition ==
    rpCall.op = "Create" =>
        LET info == rpCall.info
            colorRef == RefIndex(info.subpass.pColorAttachments)
            depthRef == RefIndex(info.subpass.pDepthStencilAttachment)
        IN  /\ info.attachmentCount = Len(info.attachments)
            /\ (ColorDefined /\ ~DepthStencilDefined) =>
                  /\ Len(info.attachments) = 1
                  /\ IsColorAttachment(AttachmentAt(0))
                  /\ colorRef = 0
            /\ (~ColorDefined /\ DepthStencilDefined) =>
                  /\ Len(info.attachments) = 1
                  /\ IsDepthStencilAttachment(AttachmentAt(0))
                  /\ depthRef = 0
            /\ (ColorDefined /\ DepthStencilDefined) =>
                  /\ Len(info.attachments) = 2
                  /\ IsColorAttachment(AttachmentAt(0))
                  /\ IsDepthStencilAttachment(AttachmentAt(1))
                  /\ colorRef = 0
                  /\ depthRef = 1
            /\ (~ColorDefined /\ ~DepthStencilDefined) => Len(info.attachments) = 0
            /\ info.subpassCount = 1
            /\ (info.subpass.pColorAttachments # nullptr) <=> ColorDefined
            /\ (info.subpass.colorAttachmentCount = 1) <=> ColorDefined
            /\ (info.subpass.colorAttachmentCount = 0) <=> ~ColorDefined
            /\ (info.subpass.pDepthStencilAttachment # nullptr) <=> DepthStencilDefined

\* A Create with only a depth/stencil format has handed its descriptor over.
C6_Witness ==
    /\ rpCall.op = "Create"
    /\ ~ColorDefined
    /\ DepthStencilDefined
    /\ rpCall.info.attachmentCount = 1
    /\ rpCall.err = "VK_SUCCESS"
    /\ mVkRenderPass # VK_NULL_HANDLE

\* C7: in the descriptors Create builds, color loadOp is CLEAR iff colorClear
\* else DONT_CARE and color storeOp is STORE iff colorWrite else DONT_CARE;
\* likewise depth from depthClear/depthWrite and the stencil ops of the
\* depth/stencil attachment from stencilClear/stencilWrite alone.
C7_LoadStorePolicy ==
    rpCall.op = "Create" =>
        LET atts  == rpCall.info.attachments
            color == atts[1]
            depth == atts[Len(atts)]
        IN  /\ ColorDefined =>
                 /\ (color.loadOp = "VK_ATTACHMENT_LOAD_OP_CLEAR") <=> mColorClearEnabled
                 /\ (color.loadOp = "VK_ATTACHMENT_LOAD_OP_DONT_CARE") <=> ~mColorClearEnabled
                 /\ (color.storeOp = "VK_ATTACHMENT_STORE_OP_STORE") <=> mColorWriteEnabled
                 /\ (color.storeOp = "VK_ATTACHMENT_STORE_OP_DONT_CARE") <=> ~mColorWriteEnabled
            /\ DepthStencilDefined =>
                 /\ (depth.loadOp = "VK_ATTACHMENT_LOAD_OP_CLEAR") <=> mDepthClearEnabled
                 /\ (depth.loadOp = "VK_ATTACHMENT_LOAD_OP_DONT_CARE") <=> ~mDepthClearEnabled
                 /\ (depth.storeOp = "VK_ATTACHMENT_STORE_OP_STORE") <=> mDepthWriteEnabled
                 /\ (depth.storeOp = "VK_ATTACHMENT_STORE_OP_DONT_CARE") <=> ~mDepthWriteEnabled
                 /\ (depth.stencilLoadOp = "VK_ATTACHMENT_LOAD_OP_CLEAR") <=> mStencilClearEnabled
                 /\ (depth.stencilLoadOp = "VK_ATTACHMENT_LOAD_OP_DONT_CARE") <=> ~mStencilClearEnabled
                 /\ (depth.stencilStoreOp = "VK_ATTACHMENT_STORE_OP_STORE") <=> mStencilWriteEnabled
                 /\ (depth.stencilStoreOp = "VK_ATTACHMENT_STORE_OP_DONT_CARE") <=> ~mStencilWriteEnabled

\* A Create with both attachments, the stencil flags set against the depth
\* flags and the color flags against their defaults.
C7_Witness ==
    /\ rpCall.op = "Create"
    /\ ColorDefined
    /\ DepthStencilDefined
    /\ mColorClearEnabled /\ ~mColorWriteEnabled
    /\ ~mDepthClearEnabled /\ mDepthWriteEnabled
    /\ mStencilClearEnabled /\ ~mStencilWriteEnabled
    /\ rpCall.info.attachments[2].stencilLoadOp = "VK_ATTACHMENT_LOAD_OP_CLEAR"
    /\ rpCall.info.attachments[2].loadOp = "VK_ATTACHMENT_LOAD_OP_DONT_CARE"

\* C8: an End with no Begin since construction or since the last End issues
\* no command and leaves started (false) and nativeHandle as they were.
C8_EndWithoutBeginIsNoOp ==
    [][(rpCall'.op = "End" /\ ~openBegin) =>
          /\ cmdBuffer' = cmdBuffer
          /\ ~mStarted
          /\ ~mStarted'
          /\ mVkRenderPass' = mVkRenderPass]_vars

\* End was called on a created RenderPass that never began.
C8_Witness ==
    /\ rpCall.op = "End"
    /\ mVkRenderPass # VK_NULL_HANDLE
    /\ cmdBuffer = << >>
    /\ ~mStarted

\* C9: Release leaves nativeHandle null; a Release right after a Release
\* changes nothing; a Release before any native creation issues no destroy
\* call; no handle is passed to the native destroy call twice.
C9_ReleaseIdempotent ==
    [][/\ rpCall'.op = "Release" => mVkRenderPass' = VK_NULL_HANDLE
       /\ (rpCall.op = "Release" /\ rpCall'.op = "Release") =>
             UNCHANGED <<rpVars, rpDev>>
       /\ (rpCall'.op = "Release" /\ rpCreated = 0) =>
             rpDestroyCount' = rpDestroyCount
       /\ \A h \in Handles : rpDestroyCount'[h] <= 1]_vars

\* Release was called on a created RenderPass and destroyed its handle.
C9_Witness ==
    /\ rpCall.op = "Release"
    /\ rpCreated = 1
    /\ rpDestroyCount[1] = 1
    /\ rpLive = {}
    /\ mVkRenderPass = VK_NULL_HANDLE

\* C10: when the native creation reports host or device out-of-memory,
\* Create returns false to its caller and does not abort; it returns false
\* for no other native outcome.
C10_OutOfMemoryReturnsFalse ==
    rpCall.op = "Create" =>
        /\ rpCall.err \in OutOfMemory => (~aborted /\ rpCall.returned /\ ~rpCall.ret)
        /\ (rpCall.returned /\ ~rpCall.ret) => rpCall.err \in OutOfMemory

\* The last CreateVkShaderModule call reached vkCreateShaderModule.
NativeModuleCreationReached == shCall.err # "none"

\* C11: CreateVkShaderModule on a Shader whose stage is INVALID is rejected
\* as a fatal error and never issues the native module-creation call; with
\* an empty binaryIR it returns null and creates nothing.
C11_InvalidStageRejected ==
    shCall.op = "CreateVkShaderModule" =>
        /\ mShaderType = "SHADER_TYPE_INVALID" =>
              /\ ~NativeModuleCreationReached
              /\ ~shCall.returned
              /\ aborted
        /\ (shCall.returned /\ Len(mSpv) = 0) =>
              /\ ~NativeModuleCreationReached
              /\ shCall.retHandle = VK_NULL_HANDLE
              /\ mVkShaderModule = VK_NULL_HANDLE

\* C12: across Create and Release calls the old render pass is destroyed
\* before its replacement is created: at most one native render pass is
\* live, it is the one held in nativeHandle, no handle is destroyed twice,
\* and after Release or the destructor every created handle has been
\* destroyed exactly once.
C12_OneLiveRenderPass ==
    /\ Cardinality(rpLive) <= 1
    /\ rpLive = {mVkRenderPass} \ {VK_NULL_HANDLE}
    /\ \A h \in Handles :
          rpDestroyCount[h] = IF h <= rpCreated /\ h \notin rpLive THEN 1 ELSE 0
    /\ rpCall.op \in {"Release", "~RenderPass"} =>
          /\ rpLive = {}
          /\ \A h \in 1..rpCreated : rpDestroyCount[h] = 1

\* A second successful Create has replaced the first render pass.
C12_Witness ==
    /\ rpCall.op = "Create"
    /\ rpCall.err = "VK_SUCCESS"
    /\ rpCreated = 2
    /\ mVkRenderPass = 2
    /\ rpLive = {2}
    /\ rpDestroyCount[1] = 1

\* The bytes of a text up to and including its first terminator.
TerminatedText(text) ==
    LET firstNul == CHOOSE k \in 1..Len(text) :
                        text[k] = NUL /\ \A m \in 1..(k - 1) : text[m] # NUL
    IN  SubSeq(text, 1, firstNul)

CreateSucceeded ==
    /\ rpCall.op = "Create"
    /\ rpCall.err = "VK_SUCCESS"
    /\ rpCall.returned
    /\ rpCall.ret

\* Every Begin so far was issued on a created render pass.
BeginsHadHandle ==
    \A i \in 1..Len(cmdBuffer) :
        cmdBuffer[i].cmd = "vkCmdBeginRenderPass" =>
            cmdBuffer[i].renderPass # VK_NULL_HANDLE

\* C14: a successful Create leaves the RenderPass Ready, whatever the state
\* before it (Recording included): nativeHandle is valid and started is
\* false, and an End right after it issues no command.  Stated for the
\* callers that keep the precondition of Begin.
C14_CreateLeadsToReady ==
    [][(CreateSucceeded /\ BeginsHadHandle) =>
          /\ mVkRenderPass # VK_NULL_HANDLE
          /\ ~mStarted
          /\ rpCall'.op = "End" => cmdBuffer' = cmdBuffer]_vars

\* C15 as claimed: whenever CompileShader returns true, binaryIR holds the
\* compiler's IR and is non-empty.
C15_CompileStoresIR ==
    (shCall.op = "CompileShader" /\ shCall.returned /\ shCall.retBool) =>
        Len(mSpv) > 0

\* C15 as amended: CompileShader leaves binaryIR as it was; after a
\* CompileShader that returned true, a CreateVkShaderModule on a VERTEX or
\* FRAGMENT Shader reaches the native creation call iff binaryIR is
\* non-empty, and returns null otherwise.
C15_CompileLeavesIR ==
    [][/\ shCall'.op = "CompileShader" => mSpv' = mSpv
       /\ (/\ shCall.op = "CompileShader" /\ shCall.returned /\ shCall.retBool
           /\ mShaderType # "SHADER_TYPE_INVALID"
           /\ shCall'.op = "CreateVkShaderModule")
          => /\ shCall'.returned
             /\ NativeModuleCreationReached' <=> (Len(mSpv) > 0)
             /\ Len(mSpv) = 0 => shCall'.retHandle = VK_NULL_HANDLE]_vars

\* After a successful compile, with no IR stored, CreateVkShaderModule on a
\* VERTEX Shader has returned null.
C15_Witness ==
    /\ shCall.op = "CreateVkShaderModule"
    /\ shCall.srcOp = "CompileShader:true"
    /\ mCompiled
    /\ mShaderType = "SHADER_TYPE_VERTEX"
    /\ Len(mSpv) = 0
    /\ shCall.returned
    /\ ~NativeModuleCreationReached
    /\ shCall.retHandle = VK_NULL_HANDLE

\* The native module bookkeeping after any call: the field names the one
\* live module, every module created earlier was destroyed exactly once.
ShaderModuleAccounting ==
    /\ Cardinality(smLive) <= 1
    /\ smLive = {mVkShaderModule} \ {VK_NULL_HANDLE}
    /\ \A h \in Handles :
          smDestroyCount[h] = IF h <= smCreated /\ h \notin smLive THEN 1 ELSE 0

\* C16: over any sequence of CreateVkShaderModule and DestroyVkShader calls,
\* CreateVkShaderModule destroys the existing module before creating a new
\* one, returns the nativeModule field (null exactly when nothing was
\* created), at most one module is live, none is destroyed twice, and a
\* second DestroyVkShader in a row changes nothing.
C16_ModuleRecreation ==
    [][/\ ShaderModuleAccounting'
       /\ (shCall'.op = "CreateVkShaderModule" /\ shCall'.returned) =>
             /\ shCall'.retHandle = mVkShaderModule'
             /\ mVkShaderModule \notin smLive'
             /\ (shCall'.retHandle = VK_NULL_HANDLE) <=> (smCreated' = smCreated)
             /\ (shCall'.retHandle # VK_NULL_HANDLE) <=>
                   (NativeModuleCreationReached' /\ shCall'.err = "VK_SUCCESS")
       /\ shCall'.op = "DestroyVkShader" =>
             /\ mVkShaderModule' = VK_NULL_HANDLE
             /\ shCall.op = "DestroyVkShader" =>
                   UNCHANGED <<mVkShaderModule, smLive, smDestroyCount, smCreated>>]_vars

\* A second CreateVkShaderModule has replaced the first module.
C16_Witness ==
    /\ shCall.op = "CreateVkShaderModule"
    /\ shCall.returned
    /\ shCall.retHandle = 2
    /\ mVkShaderModule = 2
    /\ smLive = {2}
    /\ smDestroyCount[1] = 1

\* C17: whenever Create returns true, nativeHandle is non-null; a native
\* failure other than out-of-memory is fatal and never yields a true result
\* with a null nativeHandle.
C17_TrueOnlyWithHandle ==
    rpCall.op = "Create" =>
        /\ (rpCall.returned /\ rpCall.ret) => mVkRenderPass # VK_NULL_HANDLE
        /\ (rpCall.err # "VK_SUCCESS" /\ rpCall.err \notin OutOfMemory) =>
              aborted /\ ~rpCall.returned

\* How many commands named cmd the command buffer cmds holds.
Issued(cmds, cmd) == Cardinality({i \in 1..Len(cmds) : cmds[i].cmd = cmd})

\* C18: over any sequence of Begin and End calls, the scope-exit commands
\* issued never outnumber the scope-entry commands; an End while started
\* issues exactly one scope-exit command and sets started to false, so a
\* second End in a row issues nothing.
C18_ExitsNeverExceedEntries ==
    [][/\ Issued(cmdBuffer', "vkCmdEndRenderPass")
             <= Issued(cmdBuffer', "vkCmdBeginRenderPass")
       /\ (rpCall'.op = "End" /\ mStarted) =>
             /\ cmdBuffer' = Append(cmdBuffer, [cmd |-> "vkCmdEndRenderPass"])
             /\ ~mStarted'
       /\ (rpCall.op = "End" /\ rpCall'.op = "End") => cmdBuffer' = cmdBuffer]_vars

\* Begin, End, End: the command buffer holds one entry and one exit.
C18_Witness ==
    /\ rpCall.op = "End"
    /\ ~mStarted
    /\ Len(cmdBuffer) = 2
    /\ cmdBuffer[1].cmd = "vkCmdBeginRenderPass"
    /\ cmdBuffer[2].cmd = "vkCmdEndRenderPass"

====
